---- MODULE Spec2Model ----
(***************************************************************************)
(* The canvas globe of src/src/components/MetricCard.tsx (the component    *)
(* SupplyChainMap, lines 229-737): versor math, the drag / hover           *)
(* listeners, the render function and the requestAnimationFrame loop,      *)
(* together with React's re-run of the effects whose dependencies changed. *)
(*                                                                         *)
(* Numbers.  Angles are whole degrees, multiples of 90.  A point of the    *)
(* sphere is its cartesian vector times UnitLen (37), so that the          *)
(* suppliers below have whole coordinates.  Lengths on screen are tenths   *)
(* of a pixel; a pointer position is given relative to the projection that *)
(* the listeners hold, as <<dx, dy>> with dx, dy in units of scale/UnitLen *)
(* (<<0,0>> the centre, <<37,0>> the right limb).  Particle progress is in *)
(* thousandths.  A quaternion is [num, den]: component i is                *)
(* num[i] / sqrt(den).                                                     *)
(***************************************************************************)
EXTENDS Integers, Sequences, FiniteSets, TLC

(* ----------------------- degrees and trigonometry ---------------------- *)

Mod360(a) == a % 360

CosDeg(a) ==
  CASE Mod360(a) = 0 -> 1
    [] Mod360(a) = 90 -> 0
    [] Mod360(a) = 180 -> -1
    [] Mod360(a) = 270 -> 0

SinDeg(a) ==
  CASE Mod360(a) = 0 -> 0
    [] Mod360(a) = 90 -> 1
    [] Mod360(a) = 180 -> 0
    [] Mod360(a) = 270 -> -1

\* Math.atan2(y, x) in degrees, on the arguments the grid produces
Atan2Deg(y, x) ==
  CASE y = 0 /\ x >= 0 -> 0
    [] y = 0 /\ x < 0 -> 180
    [] y > 0 /\ x = 0 -> 90
    [] y < 0 /\ x = 0 -> -90
    [] y > 0 /\ x = y -> 45
    [] y > 0 /\ x = -y -> 135
    [] y < 0 /\ x = -y -> -45
    [] y < 0 /\ x = y -> -135

\* Math.asin(Math.max(-1, Math.min(1, n / d))) in degrees, d > 0
AsinClampDeg(n, d) ==
  CASE n >= d -> 90
    [] n <= -d -> -90
    [] n = 0 -> 0

RECURSIVE SqrtFrom(_, _)
SqrtFrom(n, r) == IF r * r >= n THEN r ELSE SqrtFrom(n, r + 1)

\* Math.sqrt on the perfect squares the grid produces
Sqrt(n) == SqrtFrom(n, 0)

Sq(x) == x * x

Min(a, b) == IF a < b THEN a ELSE b

(* ------------------------------ versor --------------------------------- *)

\* versor.cartesian: [lng, lat] in degrees to a unit vector
cartesian(e) ==
  LET cp == CosDeg(e[2])
  IN  <<cp * CosDeg(e[1]), cp * SinDeg(e[1]), SinDeg(e[2])>>

dot(v0, v1) == v0[1] * v1[1] + v0[2] * v1[2] + v0[3] * v1[3]

cross(v0, v1) ==
  << v0[2] * v1[3] - v0[3] * v1[2],
     v0[3] * v1[1] - v0[1] * v1[3],
     v0[1] * v1[2] - v0[2] * v1[1] >>

\* versor.rotation with the single formula sqrt((1 + d) / 2), c / sqrt(2 (1 + d))
rotationQOneBranch(v0, v1) ==
  LET c == cross(v0, v1)
      d == dot(v0, v1)
      len2 == dot(v0, v0)
  IN  [num |-> <<len2 + d, c[1], c[2], c[3]>>, den |-> 2 * len2 * (len2 + d)]

\* versor.rotation without the division by sqrt(2 (1 -+ d))
rotationQUnnormalised(v0, v1) ==
  LET c == cross(v0, v1)
      d == dot(v0, v1)
      len2 == dot(v0, v0)
  IN  [num |-> <<IF d < 0 THEN len2 - d ELSE len2 + d, c[1], c[2], c[3]>>,
       den |-> len2 * len2]

\* versor.rotation: sqrt((1 -+ d) / 2) = (1 -+ d) / sqrt(2 (1 -+ d)), so the
\* four components share the denominator sqrt(2 (1 -+ d)).  The vectors are
\* unit vectors given as whole vectors of one length, with len2 its square
\* (1 for the vectors versor.cartesian returns here): d and c are len2 times
\* the code's.
rotationQ(v0, v1) ==
  LET c == cross(v0, v1)
      d == dot(v0, v1)
      len2 == dot(v0, v0)
  IN  IF d < 0
      THEN [num |-> <<len2 - d, c[1], c[2], c[3]>>, den |-> 2 * len2 * (len2 - d)]
      ELSE [num |-> <<len2 + d, c[1], c[2], c[3]>>, den |-> 2 * len2 * (len2 + d)]

multiply(q0, q1) ==
  LET a == q0.num
      b == q1.num
  IN  [num |-> << a[1] * b[1] - a[2] * b[2] - a[3] * b[3] - a[4] * b[4],
                  a[1] * b[2] + a[2] * b[1] + a[3] * b[4] - a[4] * b[3],
                  a[1] * b[3] - a[2] * b[4] + a[3] * b[1] + a[4] * b[2],
                  a[1] * b[4] + a[2] * b[3] - a[3] * b[2] + a[4] * b[1] >>,
       den |-> q0.den * q1.den]

\* versor.toEuler: every product of two components is (num * num) / den
toEuler(q) ==
  LET n == q.num
      N == q.den
  IN  << Atan2Deg(2 * (n[1] * n[2] + n[3] * n[4]), N - 2 * (n[2] * n[2] + n[3] * n[3])),
         AsinClampDeg(2 * (n[1] * n[3] - n[4] * n[2]), N),
         Atan2Deg(2 * (n[1] * n[4] + n[2] * n[3]), N - 2 * (n[3] * n[3] + n[4] * n[4])) >>

IdentityQ == [num |-> <<1, 0, 0, 0>>, den |-> 1]


(* ----------------------------- bounds --------------------------------- *)

\* rotation angles stay within -MaxAngle..MaxAngle degrees
MaxAngle == 90
\* calls of render() explored after Init
MaxRenders == 2
\* events handled while a re-render is due, before React gets to it
MaxBacklog == 1
\* the unit vectors given to versor.rotation on its own are the whole vectors
\* of this length
VecLen == 3

(* ------------------------------ the data ------------------------------- *)

\* SUPPLY_CHAIN_DATA, cut to three suppliers placed where the 90-degree grid
\* keeps every projection a whole number: vec is UnitLen * cartesian([lng, lat]);
\* interp holds geoInterpolate(source, target)(t) for t = 0, 1/4, 1/2, 3/4, 1.
SUPPLY_CHAIN_DATA ==
  << [id |-> "supplier-1", vec |-> <<0, 35, -12>>, emissionsKgCO2 |-> 2070,
      interp |-> << <<0, 35, -12>>, <<0, 37, 5>>, <<0, 30, 22>>, <<0, 17, 33>>, <<0, 0, 37>> >>],
     [id |-> "supplier-2", vec |-> <<36, 8, 3>>, emissionsKgCO2 |-> 3456,
      interp |-> << <<36, 8, 3>>, <<32, 7, 16>>, <<24, 5, 27>>, <<13, 3, 34>>, <<0, 0, 37>> >>],
     [id |-> "supplier-3", vec |-> <<37, 0, 0>>, emissionsKgCO2 |-> 6480,
      interp |-> << <<37, 0, 0>>, <<34, 0, 14>>, <<26, 0, 26>>, <<14, 0, 34>>, <<0, 0, 37>> >> ] >>

Suppliers == 1..Len(SUPPLY_CHAIN_DATA)

\* the length of the vectors above, the radius of the sphere in model units:
\* supplier-3 lies on the x axis
UnitLen == SUPPLY_CHAIN_DATA[3].vec[1]

\* the facilityLocation prop: the north pole
facilityLocation == [lat |-> 90, lng |-> 0]

facilityVec == <<0, 0, UnitLen>>

\* containerRef.current.getBoundingClientRect().width, tenths of a pixel
ContainerWidths == {814, 7000}

\* Math.min(containerWidth, 600)
MaxSize == 6000

\* scale = Math.min(width, height) / 2.2 pixels = ScaleNum / ScaleDen
ScaleDen == 22

ScaleNum(dims) == Min(dims.width, dims.height)

\* if (dist < 12), pixels
HitRadius == 12

\* p + 0.003 and the wrap at 1, in thousandths
ParticleStep == 3

ParticleWrap == 1000

\* SUPPLY_CHAIN_DATA.map(() => Math.random()): the draw considered, one
\* particle three steps short of 1 once the mount has rendered twice
InitProgress == { <<991, 500, 0>> }

\* where the pointer is put: centre, three limb points, outside the sphere
PointerPositions ==
  { <<0, 0>>, <<UnitLen, 0>>, <<0, UnitLen>>, <<0, -UnitLen>>, <<2 * UnitLen, 0>> }

(* ---------------------------- projection ------------------------------- *)

\* geoOrthographic().rotate([lambda, phi, gamma]): the rotation applied to a
\* point before it is projected
Rotate(r, v) ==
  LET x == v[1] * CosDeg(r[1]) - v[2] * SinDeg(r[1])
      y == v[1] * SinDeg(r[1]) + v[2] * CosDeg(r[1])
      z == v[3]
      k == z * CosDeg(r[2]) + x * SinDeg(r[2])
  IN  << x * CosDeg(r[2]) - z * SinDeg(r[2]),
         y * CosDeg(r[3]) - k * SinDeg(r[3]),
         k * CosDeg(r[3]) + y * SinDeg(r[3]) >>

RotateInv(r, v) ==
  LET k == v[3] * CosDeg(r[3]) - v[2] * SinDeg(r[3])
      x == v[1] * CosDeg(r[2]) + k * SinDeg(r[2])
      y == v[2] * CosDeg(r[3]) + v[3] * SinDeg(r[3])
      z == k * CosDeg(r[2]) - v[1] * SinDeg(r[2])
  IN  << x * CosDeg(r[1]) + y * SinDeg(r[1]),
         y * CosDeg(r[1]) - x * SinDeg(r[1]),
         z >>

\* projection(point): the screen offset from the centre (y downwards), or <<>>
\* when clipAngle(90) hides the point
project(vec, rot) ==
  LET w == Rotate(rot, vec)
  IN  IF w[1] > 0 THEN <<w[2], -w[3]>> ELSE <<>>

\* projection.invert(pos): [lng, lat] of the point of the near hemisphere under
\* the screen position.  d3-geo's orthographic inverse is azimuthalInvert(asin)
\* with d3's asin, which returns pi/2 for an argument above 1: a position
\* outside the silhouette inverts to the limb point in its direction, and
\* invert returns an array, never null, so the || null of line 522 and the
\* if (pos) tests of lines 530 and 553 always take the non-null path.
invert(pos, rot) ==
  LET rho2 == Sq(pos[1]) + Sq(pos[2])
      outside == rho2 > Sq(UnitLen)
      rho == Sqrt(rho2)
      x == IF outside THEN (pos[1] * UnitLen) \div rho ELSE pos[1]
      y == IF outside THEN (pos[2] * UnitLen) \div rho ELSE pos[2]
      depth == IF outside THEN 0 ELSE Sqrt(Sq(UnitLen) - rho2)
      w == RotateInv(rot, <<depth, x, -y>>)
  IN  <<Atan2Deg(w[2], w[1]), AsinClampDeg(w[3], UnitLen)>>

(* ---------------------------- colour scale ----------------------------- *)

\* Math.round(n / d), d > 0
Round(n, d) == (2 * n + d) \div (2 * d)

maxEmissions ==
  CHOOSE m \in {SUPPLY_CHAIN_DATA[i].emissionsKgCO2 : i \in Suppliers} :
    \A i \in Suppliers : SUPPLY_CHAIN_DATA[i].emissionsKgCO2 <= m

\* getRouteColor: 'rgb(r,g,b)' as <<r, g, b, alpha in percent>>
getRouteColor(emissions) ==
  << Round(59 * maxEmissions + emissions * (239 - 59), maxEmissions),
     Round(130 * maxEmissions + emissions * (68 - 130), maxEmissions),
     Round(246 * maxEmissions + emissions * (68 - 246), maxEmissions),
     100 >>


(* ------------------------------- render -------------------------------- *)

\* One canvas call that paints or extends a path.  layer names what is being
\* drawn, route the supplier's index (0: none), sample the arc sample (0: none),
\* style the strokeStyle or fillStyle in force (<<>>: none).
Op(op, layer, route, sample, style) ==
  [op |-> op, layer |-> layer, route |-> route, sample |-> sample, style |-> style]

White == <<255, 255, 255, 100>>

\* for (let t = 0; t <= 1; t += 0.02) arcPoints.push(interpolate(t)): the
\* accumulated t passes 1 before it reaches it, so the samples stop short of
\* the target; here the step is 1/4
arcPoints(index) == SubSeq(SUPPLY_CHAIN_DATA[index].interp, 1, 4)

\* interpolate(progress), progress in thousandths, on the samples of interp
interpolate(index, progress) ==
  SUPPLY_CHAIN_DATA[index].interp[Min(5, (progress * 4) \div ParticleWrap + 1)]

\* let started = false
startedInit == FALSE

\* arcStep without the clipping: a hidden sample is drawn like a visible one
arcStepNoClip(ctx, index, i, projected) ==
  IF ~ctx.started
  THEN [ctx EXCEPT !.ops = Append(@, Op("moveTo", "route", index, i, <<>>)),
                   !.started = TRUE]
  ELSE [ctx EXCEPT !.ops = Append(@, Op("lineTo", "route", index, i, <<>>))]

\* the body of arcPoints.forEach: ctx is [ops, strokeStyle, started]
arcStep(ctx, index, i, projected) ==
  IF projected # <<>>
  THEN IF ~ctx.started
       THEN [ctx EXCEPT !.ops = Append(@, Op("moveTo", "route", index, i, <<>>)),
                        !.started = TRUE]
       ELSE [ctx EXCEPT !.ops = Append(@, Op("lineTo", "route", index, i, <<>>))]
  ELSE IF ctx.started
       THEN [ctx EXCEPT !.ops = Append(@, Op("stroke", "route", index, i, ctx.strokeStyle)),
                        !.started = FALSE]
       ELSE ctx

RECURSIVE arcLoop(_, _, _, _)
arcLoop(ctx, index, rot, i) ==
  IF i > Len(arcPoints(index))
  THEN ctx
  ELSE arcLoop(arcStep(ctx, index, i, project(arcPoints(index)[i], rot)), index, rot, i + 1)

\* lines 403-426: the arc of one supplier
drawArc(ctx, index, rot) ==
  LET c == arcLoop([ctx EXCEPT !.started = startedInit], index, rot, 1)
      color == getRouteColor(SUPPLY_CHAIN_DATA[index].emissionsKgCO2)
  IN  [c EXCEPT !.strokeStyle = color,
                !.ops = Append(@, Op("stroke", "route", index, 0, color))]

\* lines 428-441: the particle of one supplier
drawParticle(ctx, index, rot, progress) ==
  IF project(interpolate(index, progress), rot) # <<>>
  THEN [ctx EXCEPT !.strokeStyle = White,
                   !.ops = @ \o << Op("fill", "particle", index, 0,
                                       getRouteColor(SUPPLY_CHAIN_DATA[index].emissionsKgCO2)),
                                    Op("stroke", "particle", index, 0, White) >>]
  ELSE ctx

\* lines 443-452: the marker of one supplier
drawSupplier(ctx, index, rot) ==
  IF project(SUPPLY_CHAIN_DATA[index].vec, rot) # <<>>
  THEN [ctx EXCEPT !.strokeStyle = White,
                   !.ops = @ \o << Op("fill", "marker", index, 0,
                                       getRouteColor(SUPPLY_CHAIN_DATA[index].emissionsKgCO2)),
                                    Op("stroke", "marker", index, 0, White) >>]
  ELSE ctx

\* SUPPLY_CHAIN_DATA.forEach((supplier, index) => ...), lines 388-453
RECURSIVE drawRoutes(_, _, _, _)
drawRoutes(ctx, rot, progress, index) ==
  IF index > Len(SUPPLY_CHAIN_DATA)
  THEN ctx
  ELSE drawRoutes(
         drawSupplier(drawParticle(drawArc(ctx, index, rot), index, rot, progress[index]),
                      index, rot),
         rot, progress, index + 1)

\* lines 337-385: ocean, graticule, sphere outline, land
drawBackground ==
  [ops |-> << Op("fill", "sphere", 0, 0, <<12, 18, 34, 100>>),
              Op("stroke", "graticule", 0, 0, <<100, 116, 139, 20>>),
              Op("stroke", "sphere", 0, 0, <<100, 116, 139, 50>>),
              Op("fill", "land", 0, 0, <<30, 41, 59, 100>>),
              Op("stroke", "land", 0, 0, <<51, 65, 85, 100>>) >>,
   strokeStyle |-> <<51, 65, 85, 100>>,
   started |-> FALSE]

\* lines 455-478: the facility marker
drawFacility(ctx, rot) ==
  IF project(facilityVec, rot) # <<>>
  THEN [ctx EXCEPT !.strokeStyle = White,
                   !.ops = @ \o << Op("fill", "facility", 0, 0, <<16, 185, 129, 30>>),
                                    Op("fill", "facility", 0, 0, <<16, 185, 129, 100>>),
                                    Op("stroke", "facility", 0, 0, White) >>]
  ELSE ctx

\* what one call of render() leaves on the canvas
renderOps(rot, progress) == drawFacility(drawRoutes(drawBackground, rot, progress, 1), rot).ops

\* lines 480-484: newP > 1 ? 0 : newP
advance(p) ==
  LET newP == p + ParticleStep
  IN  IF newP > ParticleWrap THEN 0 ELSE newP

updateParticles(progress) == [i \in DOMAIN progress |-> advance(progress[i])]


(* ------------------------------- hover --------------------------------- *)

\* (pos[0] - x) ** 2 + (pos[1] - y) ** 2, in squared model units
Dist2(pos, p) == Sq(pos[1] - p[1]) + Sq(pos[2] - p[2])

\* Math.sqrt(...) < px pixels.  A model unit is scale / UnitLen pixels long, so
\* this is Dist2 * ScaleNum^2 < (px * ScaleDen * UnitLen)^2, written with a
\* quotient to stay within 32-bit integers.
distLess(pos, p, dims, px) ==
  Dist2(pos, p) <= (Sq(px * ScaleDen * UnitLen) - 1) \div Sq(ScaleNum(dims))

\* lines 585-596: the index of the supplier found (0: none)
RECURSIVE hoverLoop(_, _, _, _)
hoverLoop(p, rot, dims, i) ==
  IF i > Len(SUPPLY_CHAIN_DATA)
  THEN 0
  ELSE LET pos == project(SUPPLY_CHAIN_DATA[i].vec, rot)
       IN  IF pos # <<>> /\ distLess(pos, p, dims, HitRadius)
           THEN i
           ELSE hoverLoop(p, rot, dims, i + 1)

\* lines 598-608: the tooltip state handleHover sets, <<>> for null
hoverTooltip(p, rot, dims) ==
  LET found == hoverLoop(p, rot, dims, 1)
  IN  IF found # 0 THEN <<p, found>> ELSE <<>>

(* ------------------------------- state --------------------------------- *)


(* ------------------------ src/src/lib/storage.ts ------------------------ *)
(* The app state kept in localStorage under STORAGE_KEY.  A JavaScript     *)
(* object is a function from its field names; an array is a sequence.      *)
(* DEFAULT_STATE is one object of the module, and DEFAULT_STATE.monthlyData *)
(* and .objectives are one array each: getAppState hands them out, so what *)
(* a caller does to them in place is done to DEFAULT_STATE.  No other      *)
(* object outlives the call that made it.                                   *)

\* calls of the storage functions in one page session
MaxCalls == 3

\* for (let i = 0; i < 12; i++)
SampleMonths == 12

\* employeeCount: 25 + Math.floor(i / 4)
SampleEmployees == 25

SampleGrowthEvery == 4

EmptyObj == [k \in {} |-> 0]

\* { ...a, ...b }
Spread(a, b) ==
  [k \in (DOMAIN a) \cup (DOMAIN b) |-> IF k \in DOMAIN b THEN b[k] ELSE a[k]]

DEFAULT_SETTINGS ==
  [facilityName |-> "Main Facility", defaultSquareFeet |-> 10000,
   defaultEmployeeCount |-> 25, adminPassword |-> "eco2024"]

\* DEFAULT_STATE as the module creates it
InitialDefaultState ==
  [monthlyData |-> <<>>, objectives |-> <<>>, settings |-> DEFAULT_SETTINGS]

\* localStorage.getItem(STORAGE_KEY) === null
NoItem == [item |-> "absent", value |-> EmptyObj]

\* JSON.stringify of an object, and of null: a text that JSON.parse turns
\* into a new object with the same fields, sharing nothing with the first
stringify(kind, v) ==
  IF kind = "object" THEN [item |-> "object", value |-> v]
  ELSE [item |-> "null", value |-> EmptyObj]

\* new Date(): the year and month of the session
currentDate == [year |-> 2026, month |-> 2]

\* `${year}-${month}`
monthId(year, month) == ToString(year) \o "-" \o ToString(month)

\* getAppState(): the object returned, and which of DEFAULT_STATE's own
\* objects it is made of: "self" when it is DEFAULT_STATE (lines 28, 39; a
\* stored null makes parsed.settings throw), else the default arrays that the
\* spread of line 33 copied by reference because parsed has no such field
getAppState(ls, def) ==
  IF ls.item # "object"
  THEN [state |-> def, shares |-> {"self", "monthlyData", "objectives"}]
  ELSE LET parsed == ls.value
           stored == IF "settings" \in DOMAIN parsed THEN parsed.settings
                     ELSE EmptyObj
       IN  [state |-> Spread(Spread(def, parsed),
                             [settings |-> Spread(DEFAULT_SETTINGS, stored)]),
            shares |-> {"monthlyData", "objectives"} \ DOMAIN parsed]

\* saveAppState(state): the item written
saveAppState(state) == stringify("object", state)

\* DEFAULT_STATE after the caller changed array `field` of the state in place
inPlace(got, def, field, value) ==
  IF field \in got.shares THEN [def EXCEPT ![field] = value] ELSE def

\* DEFAULT_STATE after the caller assigned `value` to state[field]
assigned(got, def, field, value) ==
  IF "self" \in got.shares THEN [def EXCEPT ![field] = value] ELSE def

\* findIndex(d => d.year === year && d.month === month), 0 for -1
findIndex(list, year, month) ==
  IF \E i \in 1..Len(list) : list[i].year = year /\ list[i].month = month
  THEN CHOOSE i \in 1..Len(list) :
         /\ list[i].year = year /\ list[i].month = month
         /\ \A j \in 1..(i - 1) : ~(list[j].year = year /\ list[j].month = month)
  ELSE 0

\* the comparator of line 94 is negative: a goes before b
sortsBefore(a, b) ==
  IF a.year # b.year THEN b.year - a.year < 0 ELSE b.month - a.month < 0

RECURSIVE insertSorted(_, _)
insertSorted(r, sorted) ==
  IF sorted = <<>> THEN <<r>>
  ELSE IF sortsBefore(r, Head(sorted)) THEN <<r>> \o sorted
  ELSE <<Head(sorted)>> \o insertSorted(r, Tail(sorted))

\* Array.prototype.sort with that comparator: stable
RECURSIVE sortFrom(_, _)
sortFrom(list, sorted) ==
  IF list = <<>> THEN sorted
  ELSE sortFrom(Tail(list), insertSorted(Head(list), sorted))

sortDescending(list) == sortFrom(list, <<>>)

\* lines 75-91: replace the record found, or push a new one
upsert(list, data, now) ==
  LET existingIndex == findIndex(list, data.year, data.month)
  IN  IF existingIndex > 0
      THEN [list EXCEPT ![existingIndex] = Spread(data, [updatedAt |-> now])]
      ELSE Append(list, Spread(data, [id |-> monthId(data.year, data.month),
                                      createdAt |-> now, updatedAt |-> now]))

\* state.monthlyData after saveMonthlyData(data)
saveMonthlyData(list, data, now) == sortDescending(upsert(list, data, now))

\* state.monthlyData after deleteMonthlyData(year, month)
deleteMonthlyData(list, year, month) ==
  SelectSeq(list, LAMBDA d : ~(d.year = year /\ d.month = month))

\* state.objectives after deleteObjective(id)
deleteObjective(list, id) == SelectSeq(list, LAMBDA o : o.id # id)

\* the data DataEntryForm.handleSubmit passes to saveMonthlyData: the
\* numeric fields by electricityKwh and employeeCount
submitted(year, month, kwh, employees, now) ==
  [id |-> monthId(year, month), year |-> year, month |-> month,
   electricityKwh |-> IF kwh = 0 THEN 0 ELSE kwh,
   employeeCount |-> IF employees = 0 THEN 1 ELSE employees,
   createdAt |-> now, updatedAt |-> now]

\* the i-th month generateSampleData makes, i = 0 the current month
sampleData(i, random, now) ==
  LET back == currentDate.month - i
      month == IF back <= 0 THEN back + 12 ELSE back
      year == IF back <= 0 THEN currentDate.year - 1 ELSE currentDate.year
  IN  [id |-> monthId(year, month), year |-> year, month |-> month,
       electricityKwh |-> random,
       employeeCount |-> SampleEmployees + (i \div SampleGrowthEvery),
       createdAt |-> now, updatedAt |-> now]

RECURSIVE pushSamples(_, _, _, _)
pushSamples(list, i, random, now) ==
  IF i >= SampleMonths THEN list
  ELSE pushSamples(Append(list, sampleData(i, random, now)), i + 1, random, now)

\* the two objectives of lines 235-266
sampleObjectives(now) ==
  << [id |-> "obj-1", metric |-> "electricityIntensity", targetValue |-> 10,
      status |-> "on-track", createdAt |-> now],
     [id |-> "obj-2", metric |-> "water", targetValue |-> 5,
      status |-> "at-risk", createdAt |-> now] >>

VARIABLES
  mounted,              \* the component is mounted
  dimensions,           \* useState: the latest dimensions set
  rotation,             \* useState: the latest rotation set
  tooltip,              \* useState: <<>> or <<pointer, supplier index>>
  particleProgressRef,  \* useRef: progress of each route's particle
  animationRef,         \* useRef: the last requestAnimationFrame handle, 0 undefined
  frames,               \* pending animation-frame callbacks [id, rot, dims]
  dirty,                \* the states set since the last render: a re-render is due
  resizeListener,       \* window 'resize' listener attached
  dragListeners,        \* the five canvas listeners attached
  dragDims,             \* dimensions the attached listeners closed over
  dragRot,              \* rotation the attached listeners closed over
  v0, r0, q0,           \* the locals of the drag effect whose listeners are
                        \* attached, <<>> / NullQ for null or no such effect
  drawn,                \* the last render(): [rot, progress] it drew with
  renders,              \* calls of render() since Init
  backlog,              \* events handled since the re-render now due was due
  downAt,               \* of the pointer-down behind v0: <<rotation, pointer,
                        \* rotating moves since (2: two or more)>>, or <<>>
  lastEvent,            \* the step just taken: [type, pos, rotated]
  versorRun,            \* versor.rotation applied on its own: [stage, v0, v1, q]
  localStorage,         \* the item under STORAGE_KEY: [item, value]
  DEFAULT_STATE,        \* the module's DEFAULT_STATE object, as it is now
  clock,                \* calls of the storage functions so far: new Date()
  lastCall,             \* the storage call just made: [op, data, result]
  authenticated,        \* AdminPage useState: the admin panel is open
  error,                \* AdminPage useState: the message under the password
  period,               \* DataEntryForm useState: [year, month] selected
  isNew,                \* DataEntryForm useState: no record for the period
  saving,               \* DataEntryForm useState: a submit is being completed
  timerPending,         \* the setTimeout of handleSubmit has not fired yet
  effectPending,        \* the period effect is due: year or month was set
  mapEffect,            \* SupplyChainMap: the run of the map effect in force, 0 if none
  mapRuns,              \* SupplyChainMap: runs of the map effect so far
  timeouts,             \* pending setTimeout callbacks of line 407
  intervals,            \* live setInterval timers of line 409
  lastParticle          \* the timer of the last animateParticle call

vars ==
  << mounted, dimensions, rotation, tooltip, particleProgressRef, animationRef,
     frames, dirty, resizeListener, dragListeners, dragDims, dragRot, v0, r0, q0,
     drawn, renders, backlog, downAt, lastEvent, versorRun,
     localStorage, DEFAULT_STATE, clock, lastCall, authenticated, error,
     period, isNew, saving, timerPending, effectPending,
     mapEffect, mapRuns, timeouts, intervals, lastParticle >>

NullQ == [num |-> <<>>, den |-> 0]

\* the variables the globe's handlers have no hand in
notGlobe ==
  << versorRun, localStorage, DEFAULT_STATE, clock, lastCall, authenticated, error,
     period, isNew, saving, timerPending, effectPending,
     mapEffect, mapRuns, timeouts, intervals, lastParticle >>

\* versor.rotation is not being applied on its own
NoRun == [stage |-> "none", v0 |-> <<>>, v1 |-> <<>>, q |-> NullQ]

Call(op, data, result) == [op |-> op, data |-> data, result |-> result]

\* the variables of the storage module
storageVars == << localStorage, DEFAULT_STATE, clock, lastCall >>

\* the state of AdminPage and of DataEntryForm
adminVars == << authenticated, error >>

formVars == << period, isNew, saving, timerPending, effectPending >>

\* the state of SupplyChainMap and of the timers its effect starts
mapVars == << mapEffect, mapRuns, timeouts, intervals, lastParticle >>

\* no timer
NoTimer == [effect |-> 0, i |-> 0]

\* the state of the pages that use the storage module
pageVars == << adminVars, formVars, mapVars >>

\* AdminPage as it mounts: useState(false), useState(''); DataEntryForm once
\* mounted with nothing stored: the current month selected, its effect run
PagesFresh ==
  /\ authenticated = FALSE
  /\ error = ""
  /\ period = currentDate
  /\ isNew = TRUE
  /\ saving = FALSE
  /\ timerPending = FALSE
  /\ effectPending = FALSE
  /\ mapEffect = 0
  /\ mapRuns = 0
  /\ timeouts = {}
  /\ intervals = {}
  /\ lastParticle = NoTimer

\* the page has loaded the module and nothing is stored
StorageFresh ==
  /\ localStorage = NoItem
  /\ DEFAULT_STATE = InitialDefaultState
  /\ clock = 0
  /\ lastCall = Call("load", EmptyObj, EmptyObj)

Ev(type, pos, rotated) == [type |-> type, pos |-> pos, rotated |-> rotated]

\* requestAnimationFrame returns a handle no pending callback has
FreshId(fs) ==
  CHOOSE n \in 1..(Cardinality(fs) + 1) :
    /\ \A f \in fs : f.id # n
    /\ \A m \in 1..(n - 1) : \E f \in fs : f.id = m

\* Math.min(containerWidth, 600), width and height alike
measured(containerWidth) ==
  [width |-> Min(containerWidth, MaxSize), height |-> Min(containerWidth, MaxSize)]

InAngleRange(r) == \A i \in 1..3 : r[i] >= -MaxAngle /\ r[i] <= MaxAngle

\* The state once the mount is complete: the first render's effects have run
\* (handleResize() measured the container, animate() rendered once), and React
\* has rendered again with the measured dimensions, so the effects were cleaned
\* up and run a second time: render() has been called twice, one frame is
\* pending, and the listeners hold the measured dimensions.
MountedInit ==
  /\ mounted = TRUE
  /\ \E w \in ContainerWidths : dimensions = measured(w)
  /\ rotation = <<-facilityLocation.lng, -facilityLocation.lat, 0>>
  /\ tooltip = <<>>
  /\ \E random \in InitProgress :
       /\ particleProgressRef = updateParticles(updateParticles(random))
       /\ drawn = [rot |-> rotation, progress |-> updateParticles(random)]
  /\ animationRef = 1
  /\ frames = {[id |-> 1, rot |-> rotation, dims |-> dimensions]}
  /\ dirty = {}
  /\ resizeListener = TRUE
  /\ dragListeners = TRUE
  /\ dragDims = dimensions
  /\ dragRot = rotation
  /\ v0 = <<>>
  /\ r0 = <<>>
  /\ q0 = NullQ
  /\ renders = 0
  /\ backlog = 0
  /\ downAt = <<>>
  /\ lastEvent = Ev("mount", <<>>, FALSE)

Init == MountedInit /\ versorRun = NoRun /\ StorageFresh /\ PagesFresh

\* the canvas calls of the last render()
canvas == renderOps(drawn.rot, drawn.progress)

(* ------------------------------ handlers ------------------------------- *)

\* an event reaches its listener: the scheduled re-render may wait for it
Dispatch ==
  /\ dirty = {} \/ backlog < MaxBacklog
  /\ backlog' = IF dirty = {} THEN 0 ELSE backlog + 1

\* if (!v0 || !r0 || !q0) return, negated
dragging == v0 # <<>> /\ r0 # <<>> /\ q0 # NullQ

\* setRotation adding the Euler angles to the latest rotation instead of r0
setRotationValueFromPrev(prev, ref, euler) ==
  <<prev[1] + euler[1], prev[2] + euler[2], prev[3] + euler[3]>>

\* lines 559-563: the value given to setRotation; prev is the latest rotation set
setRotationValue(prev, ref, euler) ==
  <<ref[1] + euler[1], ref[2] + euler[2], ref[3] + euler[3]>>

\* lines 554-557
dragEuler(pos) == toEuler(multiply(q0, rotationQ(v0, cartesian(pos))))

\* handleMouseMove: the position inverted under r0, <<>> when there is no
\* anchor or the inversion fails
movePos(p) == IF dragging THEN invert(p, r0) ELSE <<>>

\* handleMouseDown, lines 525-536
handleMouseDown(p) ==
  LET pos == invert(p, dragRot)
  IN  /\ mounted /\ dragListeners
      /\ Dispatch
      /\ IF pos # <<>>
         THEN /\ v0' = cartesian(pos)
              /\ r0' = dragRot
              /\ q0' = IdentityQ
              /\ downAt' = <<dragRot, p, 0>>
         ELSE UNCHANGED <<v0, r0, q0, downAt>>
      /\ lastEvent' = Ev("down", <<>>, FALSE)
      /\ UNCHANGED << mounted, dimensions, rotation, tooltip, particleProgressRef,
                      animationRef, frames, dirty, resizeListener, dragListeners,
                      dragDims, dragRot, drawn, renders >>

\* the tooltip after a mousemove at p: handleHover, lines 574-609
mouseMoveTooltip(p) == hoverTooltip(p, dragRot, dragDims)

\* the states a mousemove sets: setRotation is given a new array and
\* setTooltip a new object, which React takes for a change; setTooltip(null)
\* on a null tooltip changes nothing
moveSets(rotated, tip) ==
  (IF rotated THEN {"rotation"} ELSE {})
    \cup (IF tip # <<>> \/ tooltip # <<>> THEN {"tooltip"} ELSE {})

\* one mousemove: handleMouseMove (lines 538-565), then handleHover, in the
\* order the listeners were added
handleMouseMove(p) ==
  LET pos == movePos(p)
  IN  /\ mounted /\ dragListeners
      /\ Dispatch
      /\ IF pos # <<>>
         THEN /\ rotation' = setRotationValue(rotation, r0, dragEuler(pos))
              /\ InAngleRange(rotation')
              /\ downAt' = <<downAt[1], downAt[2], Min(downAt[3] + 1, 2)>>
         ELSE UNCHANGED <<rotation, downAt>>
      /\ tooltip' = mouseMoveTooltip(p)
      /\ dirty' = dirty \cup moveSets(pos # <<>>, mouseMoveTooltip(p))
      /\ lastEvent' = Ev("move", p, pos # <<>>)
      /\ UNCHANGED << mounted, dimensions, particleProgressRef, animationRef, frames,
                      resizeListener, dragListeners, dragDims, dragRot, v0, r0, q0,
                      drawn, renders >>

\* handleMouseUp, lines 567-571, for 'mouseup' and for 'mouseleave'
handleMouseUp(type) ==
  /\ mounted /\ dragListeners
  /\ Dispatch
  /\ v0' = <<>>
  /\ r0' = <<>>
  /\ q0' = NullQ
  /\ downAt' = <<>>
  /\ lastEvent' = Ev(type, <<>>, FALSE)
  /\ UNCHANGED << mounted, dimensions, rotation, tooltip, particleProgressRef,
                  animationRef, frames, dirty, resizeListener, dragListeners,
                  dragDims, dragRot, drawn, renders >>

\* handleResize that also turns the globe back to the facility
handleResizeRecentre(containerWidth) ==
  /\ mounted /\ resizeListener
  /\ Dispatch
  /\ dimensions' = measured(containerWidth)
  /\ rotation' = <<-facilityLocation.lng, -facilityLocation.lat, 0>>
  /\ dirty' = dirty \cup {"dimensions", "rotation"}
  /\ lastEvent' = Ev("resize", <<>>, FALSE)
  /\ UNCHANGED << mounted, tooltip, particleProgressRef, animationRef,
                  frames, resizeListener, dragListeners, dragDims, dragRot,
                  v0, r0, q0, drawn, renders, downAt >>

\* handleResize, lines 291-300
handleResize(containerWidth) ==
  /\ mounted /\ resizeListener
  /\ Dispatch
  /\ dimensions' = measured(containerWidth)
  /\ dirty' = dirty \cup {"dimensions"}
  /\ lastEvent' = Ev("resize", <<>>, FALSE)
  /\ UNCHANGED << mounted, rotation, tooltip, particleProgressRef, animationRef,
                  frames, resizeListener, dragListeners, dragDims, dragRot,
                  v0, r0, q0, drawn, renders, downAt >>

\* a cleanup that cancels nothing
animationCleanupNoCancel(fs, ref) == fs

\* the animation effect's cleanup, lines 495-499: the callbacks left pending
animationCleanup(fs, ref) ==
  IF ref # 0 THEN {f \in fs : f.id # ref} ELSE fs

\* animate, lines 490-493, with the render that closed over rot and dims,
\* given the callbacks pending when it is called
animate(fs, rot, dims) ==
  /\ drawn' = [rot |-> rot, progress |-> particleProgressRef]
  /\ particleProgressRef' = updateParticles(particleProgressRef)
  /\ renders' = renders + 1
  /\ animationRef' = FreshId(fs)
  /\ frames' = fs \cup {[id |-> FreshId(fs), rot |-> rot, dims |-> dims]}

\* the display runs a pending callback
Tick(f) ==
  /\ renders < MaxRenders
  /\ animate(frames \ {f}, f.rot, f.dims)
  /\ lastEvent' = Ev("tick", <<>>, FALSE)
  /\ UNCHANGED << mounted, dimensions, rotation, tooltip, dirty, resizeListener,
                  dragListeners, dragDims, dragRot, v0, r0, q0, backlog, downAt >>

\* React re-renders with the states last set.  render depends on
\* facilityLocation, whose default is a new object in every render, so the
\* animation effect is cleaned up and run again each time; the drag effect
\* (line 624) only when the dimensions or the rotation were set.
Rerender ==
  /\ mounted /\ dirty # {}
  /\ renders < MaxRenders
  /\ dirty' = {}
  /\ backlog' = 0
  /\ animate(animationCleanup(frames, animationRef), rotation, dimensions)
  /\ IF dirty \cap {"dimensions", "rotation"} # {}
     THEN /\ dragDims' = dimensions
          /\ dragRot' = rotation
          /\ v0' = <<>>
          /\ r0' = <<>>
          /\ q0' = NullQ
          /\ downAt' = <<>>
     ELSE UNCHANGED <<dragDims, dragRot, v0, r0, q0, downAt>>
  /\ lastEvent' = Ev("rerender", <<>>, FALSE)
  /\ UNCHANGED notGlobe
  /\ UNCHANGED <<mounted, dimensions, rotation, tooltip, resizeListener, dragListeners>>

\* the component is removed: the three effects' cleanups run
Unmount ==
  /\ mounted
  /\ mounted' = FALSE
  /\ resizeListener' = FALSE
  /\ frames' = animationCleanup(frames, animationRef)
  /\ dragListeners' = FALSE
  /\ v0' = <<>>
  /\ r0' = <<>>
  /\ q0' = NullQ
  /\ downAt' = <<>>
  /\ dirty' = {}
  /\ backlog' = 0
  /\ lastEvent' = Ev("unmount", <<>>, FALSE)
  /\ UNCHANGED notGlobe
  /\ UNCHANGED << dimensions, rotation, tooltip, particleProgressRef, animationRef,
                  dragDims, dragRot, drawn, renders >>

MouseDown == (\E p \in PointerPositions : handleMouseDown(p)) /\ UNCHANGED notGlobe

MouseMove == (\E p \in PointerPositions : handleMouseMove(p)) /\ UNCHANGED notGlobe

MouseUp == handleMouseUp("up") /\ UNCHANGED notGlobe

MouseLeave == handleMouseUp("leave") /\ UNCHANGED notGlobe

Resize == (\E w \in ContainerWidths : handleResize(w)) /\ UNCHANGED notGlobe

AnimationFrame == (\E f \in frames : Tick(f)) /\ UNCHANGED notGlobe

Next ==
  \/ MouseDown
  \/ MouseMove
  \/ MouseUp
  \/ MouseLeave
  \/ Resize
  \/ AnimationFrame
  \/ Rerender
  \/ Unmount

Spec == Init /\ [][Next]_vars

(* ----------------------- versor.rotation on its own -------------------- *)

\* the unit vectors tried: the whole vectors of length VecLen
UnitVectors ==
  { v \in (-VecLen..VecLen) \X (-VecLen..VecLen) \X (-VecLen..VecLen) :
      dot(v, v) = VecLen * VecLen }

\* the variables of the globe, which stay as the mount left them
globeVars ==
  << mounted, dimensions, rotation, tooltip, particleProgressRef, animationRef,
     frames, dirty, resizeListener, dragListeners, dragDims, dragRot, v0, r0, q0,
     drawn, renders, backlog, downAt, lastEvent >>

VersorInit ==
  /\ MountedInit
  /\ StorageFresh
  /\ PagesFresh
  /\ \E a \in UnitVectors, b \in UnitVectors :
       versorRun = [stage |-> "input", v0 |-> a, v1 |-> b, q |-> NullQ]

\* q1 = versor.rotation(v0, v1), line 555
VersorRotation ==
  /\ versorRun.stage = "input"
  /\ versorRun' = [versorRun EXCEPT !.stage = "rotation",
                                    !.q = rotationQ(versorRun.v0, versorRun.v1)]
  /\ UNCHANGED globeVars
  /\ UNCHANGED storageVars
  /\ UNCHANGED pageVars

\* q = versor.multiply(q0, q1) with q0 = [1, 0, 0, 0], line 556: the
\* quaternion given to versor.toEuler
VersorMultiply ==
  /\ versorRun.stage = "rotation"
  /\ versorRun' = [versorRun EXCEPT !.stage = "product",
                                    !.q = multiply(IdentityQ, versorRun.q)]
  /\ UNCHANGED globeVars
  /\ UNCHANGED storageVars
  /\ UNCHANGED pageVars

VersorNext == VersorRotation \/ VersorMultiply

VersorSpec == VersorInit /\ [][VersorNext]_vars

\* the months and readings entered in the data-entry form
FormMonths == { <<2026, 2>>, <<2026, 3>>, <<2025, 1>> }

FormReadings == { 0, 1400 }

\* Math.random() for the sample readings, as the rounded reading it yields
SampleReadings == { 14000, 16000 }

\* the edits saved from the settings tab
SettingsEdits == { [adminPassword |-> "secret"], [facilityName |-> "Plant 2"] }

\* the files given to the import: text that is no JSON, null, and the
\* objects with some of the fields of an exported state
ExportedFields ==
  [monthlyData |-> << submitted(2026, 1, 900, 30, 0) >>,
   objectives |-> << [id |-> "obj-9", metric |-> "water", targetValue |-> 3,
                      status |-> "behind", createdAt |-> 0] >>,
   settings |-> [adminPassword |-> "imported"]]

ImportedFieldSets ==
  { {}, {"objectives", "settings"}, {"monthlyData", "objectives", "settings"} }

ImportFiles ==
  { [kind |-> "garbage", value |-> EmptyObj], [kind |-> "null", value |-> EmptyObj] }
    \cup { [kind |-> "object", value |-> [k \in S |-> ExportedFields[k]]] :
             S \in ImportedFieldSets }

ObjectiveIds == { "obj-1", "obj-9" }

\* an import without the try / catch around JSON.parse
importDataUnguarded(file, ls) ==
  [ok |-> TRUE, item |-> stringify(file.kind, file.value)]

\* importData(json): the value returned and the item left in storage
importData(file, ls) ==
  IF file.kind = "garbage" THEN [ok |-> FALSE, item |-> ls]
  ELSE [ok |-> TRUE, item |-> stringify(file.kind, file.value)]

\* a call of a storage function that writes
StorageCall(op, data, result) ==
  /\ clock < MaxCalls
  /\ clock' = clock + 1
  /\ lastCall' = Call(op, data, result)
  /\ UNCHANGED globeVars
  /\ UNCHANGED versorRun

Called(op, data, result) ==
  /\ StorageCall(op, data, result)
  /\ UNCHANGED pageVars

\* a caller reads the state: getMonthlyData, getObjectives, getSettings
GetAppState ==
  /\ lastCall' = Call("getAppState", EmptyObj,
                      getAppState(localStorage, DEFAULT_STATE).state)
  /\ UNCHANGED << localStorage, DEFAULT_STATE, clock, versorRun >>
  /\ UNCHANGED globeVars
  /\ UNCHANGED pageVars

\* saveMonthlyData(data) with the data the form submits for (year, month)
SaveCall(year, month, kwh) ==
  LET data == submitted(year, month, kwh, DEFAULT_SETTINGS.defaultEmployeeCount, clock)
      got == getAppState(localStorage, DEFAULT_STATE)
      list == saveMonthlyData(got.state.monthlyData, data, clock)
  IN  /\ DEFAULT_STATE' = inPlace(got, DEFAULT_STATE, "monthlyData", list)
      /\ localStorage' = saveAppState([got.state EXCEPT !.monthlyData = list])
      /\ StorageCall("saveMonthlyData", data, EmptyObj)

SaveMonthlyData ==
  /\ \E m \in FormMonths, kwh \in FormReadings : SaveCall(m[1], m[2], kwh)
  /\ UNCHANGED pageVars

\* deleteMonthlyData(year, month)
DeleteCall(year, month) ==
  LET got == getAppState(localStorage, DEFAULT_STATE)
      list == deleteMonthlyData(got.state.monthlyData, year, month)
  IN  /\ DEFAULT_STATE' = assigned(got, DEFAULT_STATE, "monthlyData", list)
      /\ localStorage' = saveAppState([got.state EXCEPT !.monthlyData = list])
      /\ StorageCall("deleteMonthlyData", [year |-> year, month |-> month], EmptyObj)

DeleteMonthlyData ==
  /\ \E m \in FormMonths : DeleteCall(m[1], m[2])
  /\ UNCHANGED pageVars

DeleteObjective ==
  \E id \in ObjectiveIds :
    LET got == getAppState(localStorage, DEFAULT_STATE)
        list == deleteObjective(got.state.objectives, id)
    IN  /\ DEFAULT_STATE' = assigned(got, DEFAULT_STATE, "objectives", list)
        /\ localStorage' = saveAppState([got.state EXCEPT !.objectives = list])
        /\ Called("deleteObjective", [id |-> id], EmptyObj)

UpdateSettings ==
  \E settings \in SettingsEdits :
    LET got == getAppState(localStorage, DEFAULT_STATE)
        merged == Spread(got.state.settings, settings)
    IN  /\ DEFAULT_STATE' = assigned(got, DEFAULT_STATE, "settings", merged)
        /\ localStorage' = saveAppState([got.state EXCEPT !.settings = merged])
        /\ Called("updateSettings", settings, EmptyObj)

\* an export that leaves the settings out
exportDataWithoutSettings(ls, def) ==
  [kind |-> "object",
   value |-> [k \in {"monthlyData", "objectives"} |-> getAppState(ls, def).state[k]]]

\* exportData(): the text JSON.stringify(getAppState(), null, 2), as the file
\* the admin page downloads
exportData(ls, def) ==
  [kind |-> "object", value |-> getAppState(ls, def).state]

\* handleExport: the export is downloaded
ExportData ==
  /\ UNCHANGED << localStorage, DEFAULT_STATE >>
  /\ Called("exportData", EmptyObj, exportData(localStorage, DEFAULT_STATE))

\* the download of the export just made, for the file input of the import
Downloaded == IF lastCall.op = "exportData" THEN {lastCall.result} ELSE {}

\* handleImport: reader.onload gives the text of the chosen file to importData
ImportData ==
  \E file \in ImportFiles \cup Downloaded :
    LET done == importData(file, localStorage)
    IN  /\ localStorage' = done.item
        /\ UNCHANGED DEFAULT_STATE
        /\ Called("importData", file,
                  [ok |-> done.ok, ofExport |-> file \in Downloaded])

GenerateSampleData ==
  \E random \in SampleReadings :
    LET got == getAppState(localStorage, DEFAULT_STATE)
        list == pushSamples(got.state.monthlyData, 0, random, clock)
        objectives == sampleObjectives(clock)
    IN  /\ DEFAULT_STATE' =
              assigned(got, inPlace(got, DEFAULT_STATE, "monthlyData", list),
                       "objectives", objectives)
        /\ localStorage' = saveAppState([got.state EXCEPT !.monthlyData = list,
                                                           !.objectives = objectives])
        /\ Called("generateSampleData", [random |-> random], EmptyObj)

\* the page session starts with nothing stored; the globe, in a container
\* wider than its largest size, is not part of it
StorageInit == Init /\ dimensions = measured(MaxSize)

StorageNext ==
  \/ GetAppState
  \/ SaveMonthlyData
  \/ DeleteMonthlyData
  \/ DeleteObjective
  \/ UpdateSettings
  \/ ExportData
  \/ ImportData
  \/ GenerateSampleData

StorageSpec == StorageInit /\ [][StorageNext]_vars

\* the calls that write monthly data, from empty storage
MonthlyNext ==
  \/ SaveMonthlyData
  \/ DeleteMonthlyData
  \/ GenerateSampleData

MonthlySpec == StorageInit /\ [][MonthlyNext]_vars

(* ------------------------ src/src/app/admin/page.tsx -------------------- *)
(* The login of the admin page.  The panel with the data-entry form, the    *)
(* settings, the import and the export is rendered only when authenticated  *)
(* is true.  The page can be left and entered again without a page load     *)
(* (the browser's Back, then the Link of the visualizations page): the      *)
(* component mounts anew, the storage module and its DEFAULT_STATE stay.    *)

\* what is typed into the password field
Passwords == { "eco2024", "secret", "imported", "guess" }

\* verifyPassword(password)
verifyPassword(password, ls, def) ==
  password = getAppState(ls, def).state.settings.adminPassword

\* handleLogin, lines 57-65; the form is rendered while authenticated is false
handleLogin(password) ==
  LET ok == verifyPassword(password, localStorage, DEFAULT_STATE)
  IN  /\ ~authenticated
      /\ authenticated' = ok
      /\ error' = IF ok THEN "" ELSE "Incorrect password"
      /\ lastCall' = Call("verifyPassword", [password |-> password], [ok |-> ok])
      /\ UNCHANGED << localStorage, DEFAULT_STATE, clock, versorRun >>
      /\ UNCHANGED globeVars
      /\ UNCHANGED formVars
      /\ UNCHANGED mapVars

HandleLogin == \E password \in Passwords : handleLogin(password)

\* the admin page is left and entered again: AdminPage mounts anew
AdminRemount ==
  /\ authenticated
  /\ authenticated' = FALSE
  /\ error' = ""
  /\ lastCall' = Call("mount", EmptyObj, EmptyObj)
  /\ UNCHANGED << localStorage, DEFAULT_STATE, clock, versorRun >>
  /\ UNCHANGED globeVars
  /\ UNCHANGED formVars
  /\ UNCHANGED mapVars

\* what the panel offers once it is open
AdminPanel ==
  /\ authenticated
  /\ \/ SaveMonthlyData
     \/ DeleteMonthlyData
     \/ DeleteObjective
     \/ UpdateSettings
     \/ ExportData
     \/ ImportData
     \/ GenerateSampleData

AdminNext == HandleLogin \/ AdminRemount \/ AdminPanel

AdminSpec == StorageInit /\ [][AdminNext]_vars

(* ------------------- DataEntryForm (src/unnamed/part_003) --------------- *)
(* The form of the admin panel's data tab: the period selected, isNew, and *)
(* the 300 ms timer handleSubmit starts.  React runs the period effect     *)
(* after the render that follows setYear or setMonth, before the next      *)
(* click or change is handled.                                             *)

\* the options of the two selects that the form months need
FormYears == { m[1] : m \in FormMonths }

FormMonthNumbers == { m[2] : m \in FormMonths }

\* getMonthData(year, month) finds a record
hasMonthData(ls, def, year, month) ==
  findIndex(getAppState(ls, def).state.monthlyData, year, month) > 0

\* the parts of the model a step of the form leaves alone
besideForm == << globeVars, versorRun, adminVars, mapVars >>

\* onChange of the month select: setMonth
SetMonth ==
  \E m \in FormMonthNumbers :
    /\ ~effectPending
    /\ m # period.month
    /\ period' = [period EXCEPT !.month = m]
    /\ effectPending' = TRUE
    /\ UNCHANGED << isNew, saving, timerPending, storageVars, besideForm >>

\* onChange of the year select: setYear
SetYear ==
  \E y \in FormYears :
    /\ ~effectPending
    /\ y # period.year
    /\ period' = [period EXCEPT !.year = y]
    /\ effectPending' = TRUE
    /\ UNCHANGED << isNew, saving, timerPending, storageVars, besideForm >>

\* the effect of lines 34-53: isNew follows getMonthData(year, month)
PeriodEffect ==
  /\ effectPending
  /\ effectPending' = FALSE
  /\ isNew' = ~hasMonthData(localStorage, DEFAULT_STATE, period.year, period.month)
  /\ UNCHANGED << period, saving, timerPending, storageVars, besideForm >>

\* handleSubmit, lines 60-87; the submit button is disabled while saving
HandleSubmit ==
  /\ ~effectPending
  /\ ~saving
  /\ saving' = TRUE
  /\ \E kwh \in FormReadings : SaveCall(period.year, period.month, kwh)
  /\ timerPending' = TRUE
  /\ UNCHANGED << period, isNew, effectPending, adminVars, mapVars >>

\* the callback of the setTimeout of lines 82-86
SubmitTimer ==
  /\ timerPending
  /\ timerPending' = FALSE
  /\ saving' = FALSE
  /\ isNew' = FALSE
  /\ UNCHANGED << period, effectPending, storageVars, besideForm >>

\* handleDelete, lines 89-106; the Delete button is rendered when !isNew
HandleDelete ==
  /\ ~effectPending
  /\ ~isNew
  /\ DeleteCall(period.year, period.month)
  /\ isNew' = TRUE
  /\ UNCHANGED << period, saving, timerPending, effectPending, adminVars, mapVars >>

FormNext ==
  \/ SetMonth
  \/ SetYear
  \/ PeriodEffect
  \/ HandleSubmit
  \/ SubmitTimer
  \/ HandleDelete

FormSpec == StorageInit /\ [][FormNext]_vars

(* --------------- SupplyChainMap (components/SupplyChainMap.tsx) --------- *)
(* The SVG map of the visualizations page.  Its map effect draws a route   *)
(* for every supplier and starts, per route, a setTimeout whose callback   *)
(* starts a setInterval.  The effect's cleanup removes the style element   *)
(* it appended and nothing else.                                            *)

\* the runs of the map effect a behaviour may hold
MaxEffects == 3

\* the length of the SUPPLY_CHAIN_DATA of SupplyChainMap.tsx
MapSuppliers == 8

\* the routes: the forEach index i of line 343
Routes == 0 .. (MapSuppliers - 1)

\* the parts of the model a step of the map leaves alone
besideMap == << globeVars, versorRun, storageVars, adminVars, formVars >>

\* the body of the map effect, lines 198-494: one setTimeout per route
runMapEffect ==
  /\ mapRuns < MaxEffects
  /\ mapRuns' = mapRuns + 1
  /\ mapEffect' = mapRuns + 1
  /\ timeouts' = timeouts \cup { [effect |-> mapRuns + 1, i |-> i] : i \in Routes }
  /\ UNCHANGED << intervals, lastParticle, besideMap >>

\* the component mounts: the map effect runs for the first time
MapMount ==
  /\ mapEffect = 0
  /\ runMapEffect

\* dimensions, selectedSupplier or facilityLocation changed: the cleanup of
\* lines 496-498 runs (it removes the style element), then the effect again
MapRerun ==
  /\ mapEffect # 0
  /\ runMapEffect

\* the component unmounts: the cleanup of lines 496-498 runs
MapUnmount ==
  /\ mapEffect # 0
  /\ mapEffect' = 0
  /\ UNCHANGED << mapRuns, timeouts, intervals, lastParticle, besideMap >>

\* timers are due in the order of their delays: 2000 + i * 300 ms after the
\* run of the effect that set them
due(t) ==
  /\ t \in timeouts
  /\ \A u \in timeouts :
       ~(u.effect <= t.effect /\ u.i <= t.i /\ u # t)

\* the callback of the setTimeout, lines 407-410
TimeoutFires ==
  \E t \in timeouts :
    /\ due(t)
    /\ lastParticle' = t
    /\ intervals' = intervals \cup {t}
    /\ timeouts' = timeouts \ {t}
    /\ UNCHANGED << mapEffect, mapRuns, besideMap >>

\* a period of a setInterval: animateParticle
IntervalFires ==
  \E t \in intervals :
    /\ lastParticle' = t
    /\ UNCHANGED << mapEffect, mapRuns, timeouts, intervals, besideMap >>

MapNext ==
  \/ MapMount
  \/ MapRerun
  \/ MapUnmount
  \/ TimeoutFires
  \/ IntervalFires

MapSpec == StorageInit /\ [][MapNext]_vars

(* ------------------------------- claims -------------------------------- *)

\* C1 (as claimed): once a pointer-down has captured the anchor, every step
\* that is not a pointer-up, a pointer-leave, a new pointer-down or the
\* teardown, and that applies no new dimensions, leaves v0, r0 and q0 as they
\* are; in particular the re-render that follows a rotating pointer-move.
C1_AnchorSurvivesMoves ==
  [][(dragging /\ "dimensions" \notin dirty
        /\ lastEvent'.type \notin {"up", "leave", "down", "unmount"})
      => (v0' = v0 /\ r0' = r0 /\ q0' = q0)]_vars

\* the rotation the drag-start snapshot and the pointer alone determine
SnapshotRotation(snapRot, downPos, pointer) ==
  LET anchorVector == cartesian(invert(downPos, snapRot))
      targetVector == cartesian(invert(pointer, snapRot))
      euler == toEuler(rotationQ(anchorVector, targetVector))
  IN  <<snapRot[1] + euler[1], snapRot[2] + euler[2], snapRot[3] + euler[3]>>

C3_RotationOnlyByDragMove ==
  [][rotation' # rotation => (lastEvent'.type = "move" /\ dragging)]_vars

\* C3 witness: a resize handled after a drag has turned the globe
C3_ResizeAfterDrag ==
  /\ lastEvent.type = "resize"
  /\ rotation # <<-facilityLocation.lng, -facilityLocation.lat, 0>>

\* Math.sqrt(...) <= px pixels
distAtMost(pos, p, dims, px) ==
  Dist2(pos, p) <= Sq(px * ScaleDen * UnitLen) \div Sq(ScaleNum(dims))

\* the marker of supplier i as the listeners' projection shows it
markerPos(i) == project(SUPPLY_CHAIN_DATA[i].vec, dragRot)

\* C4 (as claimed): after a pointer-move the tooltip names a visible marker
\* no other visible marker is nearer to the pointer than.
C4_HoverNearest ==
  (lastEvent.type = "move" /\ tooltip # <<>>)
    => \A j \in Suppliers :
         markerPos(j) # <<>>
           => Dist2(markerPos(tooltip[2]), lastEvent.pos) <= Dist2(markerPos(j), lastEvent.pos)

\* C5 (as claimed): after a pointer-move the tooltip is set exactly when some
\* visible marker lies within 12 pixels of the pointer, 12 included.
C5_HoverInclusive ==
  lastEvent.type = "move"
    => (tooltip # <<>>
          <=> \E j \in Suppliers :
                /\ markerPos(j) # <<>>
                /\ distAtMost(markerPos(j), lastEvent.pos, dragDims, HitRadius))

\* C6 (as claimed): a pointer-move handled while the anchor exists leaves the
\* tooltip as it is.
C6_NoHoverWhileDragging ==
  [][(dragging /\ lastEvent'.type = "move") => tooltip' = tooltip]_vars

\* C7 (as claimed): every particle's progress is at least 0 and below 1.
C7_ProgressBelowOne ==
  \A i \in Suppliers :
    particleProgressRef[i] >= 0 /\ particleProgressRef[i] < ParticleWrap

\* C8: at most one animation-frame callback is pending.
C8_OneLoop == Cardinality(frames) <= 1

\* C8 witness: the loop restarted by a re-render, after an earlier render
C8_LoopRestarted ==
  /\ lastEvent.type = "rerender"
  /\ renders = MaxRenders
  /\ Cardinality(frames) = 1

\* C9: once unmounted, no callback is pending, no listener is attached and no
\* anchor is held.
C9_TeardownLeavesNothing ==
  ~mounted => /\ frames = {}
              /\ ~resizeListener
              /\ ~dragListeners
              /\ ~dragging

\* C9 witness: unmounted while a rotation set by a drag was waiting for its
\* re-render
C9_UnmountedMidDrag ==
  /\ ~mounted
  /\ rotation # dragRot

\* sample i of route r as render() projected it
sampleVisible(r, i) == project(arcPoints(r)[i], drawn.rot) # <<>>

\* the step just taken called render(): the canvas is the frame it drew
rendered == lastEvent.type \in {"mount", "tick", "rerender"}

isMarker(o) == o.layer \in {"marker", "facility"}

\* C12 (as claimed): in the frame just drawn the sphere, the graticule and
\* the land come before every route and every marker, and no call that draws
\* a route comes after a call that draws a supplier's or the facility's
\* marker.
C12_LayersInOrder ==
  rendered =>
  LET ops == canvas
  IN  \A k \in DOMAIN ops : \A m \in DOMAIN ops :
        k < m => /\ ~(isMarker(ops[k]) /\ ops[m].layer = "route")
                 /\ ~(ops[m].layer \in {"sphere", "graticule", "land"}
                        /\ (isMarker(ops[k]) \/ ops[k].layer = "route"))

\* the pointer position lies on the globe's disc
onSphere(p) == Sq(p[1]) + Sq(p[2]) <= Sq(UnitLen)

\* C13 (as claimed): a pointer-down received while there is no anchor creates
\* one only if its position is on the sphere; a pointer-down outside the
\* sphere leaves the locals null, so the moves after it rotate nothing.
C13_DownOutsideStaysIdle ==
  [][(~dragging /\ lastEvent'.type = "down" /\ dragging') => onSphere(downAt'[2])]_vars

\* C14 (as claimed): a pointer-move handled while the anchor exists, with the
\* pointer off the sphere, sets no rotation and leaves the rotation and the
\* anchor as they are.
C14_MoveOutsideSkipped ==
  [][(dragging /\ lastEvent'.type = "move" /\ ~onSphere(lastEvent'.pos))
      => /\ ~lastEvent'.rotated
         /\ rotation' = rotation
         /\ v0' = v0 /\ r0' = r0 /\ q0' = q0]_vars

\* the vector q turns v into, times q.den
turned(q, v) ==
  LET u == <<q.num[2], q.num[3], q.num[4]>>
      uv == cross(u, v)
      uuv == cross(u, uv)
  IN  << q.den * v[1] + 2 * q.num[1] * uv[1] + 2 * uuv[1],
         q.den * v[2] + 2 * q.num[1] * uv[2] + 2 * uuv[2],
         q.den * v[3] + 2 * q.num[1] * uv[3] + 2 * uuv[3] >>

\* C15 (as claimed): the quaternion versor.rotation returns for v0 and v1 has
\* its axis along the cross product of v0 and v1 and turns v0 onto v1, also
\* when their dot product is negative.
C15_RotationMapsAnchorToTarget ==
  versorRun.stage = "rotation"
    => LET q == versorRun.q
       IN  /\ cross(<<q.num[2], q.num[3], q.num[4]>>, cross(versorRun.v0, versorRun.v1))
                = <<0, 0, 0>>
           /\ turned(q, versorRun.v0)
                = <<q.den * versorRun.v1[1], q.den * versorRun.v1[2], q.den * versorRun.v1[3]>>

\* the sum of the squares of the four components is 1
unitQ(q) ==
  q.num[1] * q.num[1] + q.num[2] * q.num[2] + q.num[3] * q.num[3] + q.num[4] * q.num[4] = q.den

\* C16: the quaternion given to versor.toEuler has unit length, for every
\* pair of unit vectors.
C16_EulerInputIsUnit ==
  versorRun.stage = "product" => (versorRun.q.den > 0 /\ unitQ(versorRun.q))

\* C16 witness: a product made for two vectors more than 90 degrees apart
C16_ProductForObtusePair ==
  /\ versorRun.stage = "product"
  /\ dot(versorRun.v0, versorRun.v1) < 0
  /\ cross(versorRun.v0, versorRun.v1) # <<0, 0, 0>>

\* C17: versor.rotation divides by sqrt(2 (1 -+ d)) with 1 -+ d at least 1:
\* the divisor is never zero nor near zero, for antipodal and for equal
\* vectors too, so every component is finite.
C17_DivisorAwayFromZero ==
  versorRun.stage = "rotation"
    => LET len2 == dot(versorRun.v0, versorRun.v0)
       IN  versorRun.q.den >= 2 * len2 * len2

\* C17 witness: the rotation made for two antipodal vectors
C17_AntipodalPair ==
  /\ versorRun.stage = "rotation"
  /\ dot(versorRun.v0, versorRun.v1) = -dot(versorRun.v0, versorRun.v0)

\* ---------------------------------------------------------------------------
\* C18: every tick of the animation loop draws with the rotation and the
\* dimensions written by the handlers completed before it: after a handler has
\* set the rotation or the dimensions, no tick draws with the older values.
\* The callback a tick runs is the animate of the last React render, whose
\* render closed over that render's rotation and dimensions (lines 317-334,
\* 489-500); a tick leaves the callback it ran pending again, in frames.
C18_TickDrawsLatestState ==
  lastEvent.type = "tick" =>
    /\ drawn.rot = rotation
    /\ \A f \in frames : f.rot = rotation /\ f.dims = dimensions

\* the state the stored item stands for when every absent field is the
\* built-in default: no monthly data, no objectives, DEFAULT_SETTINGS
storedOverDefaults(ls) ==
  IF ls.item # "object" THEN InitialDefaultState
  ELSE LET parsed == ls.value
           stored == IF "settings" \in DOMAIN parsed THEN parsed.settings
                     ELSE EmptyObj
       IN  Spread(Spread(InitialDefaultState, parsed),
                  [settings |-> Spread(DEFAULT_SETTINGS, stored)])

\* C19: getAppState returns every stored field as stored and every absent
\* field as the built-in default (empty monthlyData, empty objectives, default
\* settings), whatever save, delete, import or sample-data calls were made
\* before in the session.
C19_AbsentFieldsAreDefaults ==
  lastCall.op = "getAppState" => lastCall.result = storedOverDefaults(localStorage)

\* the stored records of month (year, month), and those of the other months
recordsOf(list, year, month) ==
  SelectSeq(list, LAMBDA d : d.year = year /\ d.month = month)

recordsBeside(list, year, month) ==
  { list[i] : i \in { j \in 1..Len(list) :
                        ~(list[j].year = year /\ list[j].month = month) } }

\* C20: saveMonthlyData(d) is an upsert keyed on (year, month): with at most
\* one record stored for d's month before the call, exactly one is stored for
\* it afterwards and it carries d's values, and the stored records of all
\* other months, the objectives and the settings are as before.
C20_SaveIsUpsert ==
  [][LET d == lastCall'.data
         before == storedOverDefaults(localStorage)
         after == storedOverDefaults(localStorage')
         mine == recordsOf(after.monthlyData, d.year, d.month)
     IN  (/\ lastCall'.op = "saveMonthlyData"
          /\ Len(recordsOf(before.monthlyData, d.year, d.month)) <= 1)
         => /\ Len(mine) = 1
            /\ mine[1].electricityKwh = d.electricityKwh
            /\ mine[1].employeeCount = d.employeeCount
            /\ mine[1].id = d.id
            /\ recordsBeside(after.monthlyData, d.year, d.month)
                 = recordsBeside(before.monthlyData, d.year, d.month)
            /\ after.objectives = before.objectives
            /\ after.settings = before.settings]_vars

\* the elements of a list
elements(list) == { list[i] : i \in 1..Len(list) }

\* the months generateSampleData makes: the SampleMonths months ending at the
\* current one
sampleMonthsBack ==
  { [year |-> sampleData(i, 0, 0).year, month |-> sampleData(i, 0, 0).month] :
      i \in 0..(SampleMonths - 1) }

\* C21: generateSampleData adds twelve monthly records, one for each of the
\* 12 consecutive months ending at the current month, and every monthly record
\* and every objective stored before the call is stored, unmodified, after it.
C21_SampleDataPreserves ==
  [][LET before == storedOverDefaults(localStorage)
         after == storedOverDefaults(localStorage')
     IN  lastCall'.op = "generateSampleData"
         => /\ Len(after.monthlyData) = Len(before.monthlyData) + SampleMonths
            /\ \A m \in sampleMonthsBack :
                 \E i \in 1..Len(after.monthlyData) :
                   /\ after.monthlyData[i].year = m.year
                   /\ after.monthlyData[i].month = m.month
            /\ elements(before.monthlyData) \subseteq elements(after.monthlyData)
            /\ elements(before.objectives) \subseteq elements(after.objectives)]_vars

C23_BadImportChangesNothing ==
  [][(lastCall'.op = "importData" /\ lastCall'.data.kind = "garbage")
      => /\ ~lastCall'.result.ok
         /\ localStorage' = localStorage
         /\ getAppState(localStorage', DEFAULT_STATE').state
              = getAppState(localStorage, DEFAULT_STATE).state]_vars

\* unparseable text was imported over a stored state with monthly data
C23_BadImportOverData ==
  /\ lastCall.op = "importData"
  /\ lastCall.data.kind = "garbage"
  /\ localStorage.item = "object"
  /\ "monthlyData" \in DOMAIN localStorage.value
  /\ localStorage.value.monthlyData # <<>>

\* the adminPassword stored in settings, the default when none is stored
storedPassword == storedOverDefaults(localStorage).settings.adminPassword

\* C24: authenticated is false at first and becomes true only by a login whose
\* password equals the adminPassword stored in settings (DEFAULT_SETTINGS'
\* when none is stored); a login with any other password leaves it false and
\* sets the error 'Incorrect password'.
C24_LoginNeedsStoredPassword ==
  /\ ~authenticated
  /\ [][/\ ((~authenticated /\ authenticated')
              => (/\ lastCall'.op = "verifyPassword"
                  /\ lastCall'.data.password = storedPassword))
          /\ ((lastCall'.op = "verifyPassword"
                 /\ lastCall'.data.password # storedPassword)
              => (/\ ~authenticated'
                  /\ error' = "Incorrect password"))]_vars

\* C25: the particles' progress is advanced only by ticks of the animation
\* loop run from the display's refresh callback, once per tick by the fixed
\* increment per route; pointer events and resizes, and the re-render they
\* bring about, advance nothing.
C25_OnlyTicksAdvance ==
  [][/\ (particleProgressRef' # particleProgressRef => lastEvent'.type = "tick")
     /\ (lastEvent'.type = "tick"
           => particleProgressRef' = updateParticles(particleProgressRef))]_vars

\* the monthly records in storage
storedMonthlyData == storedOverDefaults(localStorage).monthlyData

\* C26: after any sequence of saveMonthlyData, deleteMonthlyData and
\* generateSampleData calls from empty storage the stored monthlyData is in
\* descending order of (year, month): no record comes after one of an earlier
\* month, so the first 12 entries are the most recent months.
C26_StoredDescending ==
  \A i \in 1..Len(storedMonthlyData) : \A j \in (i + 1)..Len(storedMonthlyData) :
    ~sortsBefore(storedMonthlyData[j], storedMonthlyData[i])

\* C27: in every state reached from empty storage by saveMonthlyData,
\* deleteMonthlyData and generateSampleData calls no two stored monthly
\* records have the same (year, month), nor the same id.
C27_OneRecordPerMonth ==
  \A i \in 1..Len(storedMonthlyData) : \A j \in (i + 1)..Len(storedMonthlyData) :
    /\ ~(storedMonthlyData[i].year = storedMonthlyData[j].year
           /\ storedMonthlyData[i].month = storedMonthlyData[j].month)
    /\ storedMonthlyData[i].id # storedMonthlyData[j].id

\* C28: whenever no timer and no effect of the form is pending, isNew is
\* false only if a record is stored for the selected (year, month), also when
\* the month is changed between the submit and its delayed callback.
C28_EditingMeansStored ==
  (~timerPending /\ ~effectPending /\ ~isNew) =>
    findIndex(storedMonthlyData, period.year, period.month) > 0

\* C29: once the map effect is torn down (unmount or re-run) no particle
\* timeout or interval started by that run remains scheduled, and the number
\* of live particle intervals never exceeds the number of suppliers.
C29_TeardownClearsTimers ==
  /\ \A t \in timeouts \cup intervals : t.effect = mapEffect
  /\ Cardinality(intervals) <= MapSuppliers

====
